---- MODULE Spec2Model ----
(***************************************************************************)
(* Model of Task1.ipynb: the frame sampler (extract_frames), the           *)
(* descriptor extractor (load_frame_descriptors), the correlation engine   *)
(* (compute_cte_correlation) and the alignment loop of cell e80b361b.      *)
(***************************************************************************)
EXTENDS Integers, Sequences, FiniteSets, TLC

(* ------------------------------ bounds --------------------------------- *)
\* longest video, in original frames, that the sampler is run on
MaxFrames == 5

\* frames of each video the alignment loop is run on
CellFrames == 16
\* number of query/reference pairs of a batch (videos_idx_limit, 1 - 15)
videos_idx_limit == 2
\* longest frame sequence the descriptor extractor is run on by itself
MaxSeq == 3
\* longest descriptor matrices the correlation engine is run on by itself,
\* next to the recorded 60 and 600 frames
MaxT == 5
\* highest frame rate a container reports, and highest target rate next to
\* 15 and 20, when the step computation is run by itself
MaxFps == 64
MaxTarget == 8
\* longest descriptor matrices of numbers the correlation engine is run on
\* (the transform lengths are then 1, 2 and 4)
MaxCteT == 3

(* --------------------------- program constants ------------------------- *)
\* pca_dim=64 and hof_bins=8 of load_frame_descriptors
pca_dim == 64
hof_bins == 8
\* frames of the recorded pair 01: 60 query frames, 600 reference frames
QueryFrames == 60
RefFrames == 600
\* default target_fps of extract_frames / match_query_to_reference
DefaultTargetFps == 15
\* target_fps passed by the alignment loop
CellTargetFps == 20
\* default max_pixels, and max_pixels passed by the alignment loop
DefaultMaxPixels == 120000
CellMaxPixels == 180000

(* ------------------------------ file names ----------------------------- *)
\* A video file name: the digits before the first "_" (<<>> when the name
\* does not start with digits and "_") and the words it contains.
FileName(ds, kind) == [digits |-> ds, words |-> {kind}]

RECURSIVE DigitsToInt(_)
DigitsToInt(ds) ==
    IF ds = <<>> THEN 0
    ELSE 10 * DigitsToInt(SubSeq(ds, 1, Len(ds) - 1)) + ds[Len(ds)]

\* vid_unknown is written as number -1
UnknownNumber == -1

get_out_folder(file_name) ==
    LET number == IF file_name.digits # <<>>
                  THEN DigitsToInt(file_name.digits)
                  ELSE UnknownNumber
        subfolder == IF "query" \in file_name.words THEN "query"
                     ELSE IF "reference" \in file_name.words THEN "reference"
                     ELSE "other"
    IN  [subfolder |-> subfolder, number |-> number]

\* f"{idx:02d}_query.mp4" and f"{idx:02d}_reference.mp4"
q_file_of(i) == FileName(<<i \div 10, i % 10>>, "query")
r_file_of(i) == FileName(<<i \div 10, i % 10>>, "reference")

(* ------------------------------- videos -------------------------------- *)
\* What cv.VideoCapture finds at a path: whether it opens, the frame rate
\* the container reports (0 when it reports none) and the number of frames
\* cap.read() delivers.
\* pixels: width times height of its frames.
\* content: what the detector and the flow find in its frames ("rich":
\* pca_dim keypoints and motion in every frame; "blank": no keypoint, no
\* motion; "sparse": one keypoint and motion in every frame).
\* frames of 1920 x 1080
VideoPixels == 2073600
NotSeen    == [isOpened |-> FALSE, fps |-> -1, nframes |-> 0, content |-> "rich",
               pixels |-> 0]
Unopenable == [isOpened |-> FALSE, fps |-> 0, nframes |-> 0, content |-> "rich",
               pixels |-> 0]
FpsSet == {0, 30, 50, 60}
SamplerVideos ==
    {Unopenable} \cup [isOpened : {TRUE}, fps : FpsSet, nframes : 0..MaxFrames,
                       content : {"rich"}, pixels : {VideoPixels}]
CellVideos ==
    {Unopenable} \cup
    {[isOpened |-> TRUE, fps |-> v[1], nframes |-> v[2], content |-> v[3],
      pixels |-> VideoPixels] :
        v \in {<<0, 0, "rich">>, <<0, CellFrames, "rich">>,
               <<60, CellFrames, "rich">>, <<60, CellFrames, "blank">>}}

\* the videos the step computation is run on by itself: every reported rate
StepVideos ==
    {Unopenable} \cup [isOpened : {TRUE}, fps : 0..MaxFps, nframes : {0},
                       content : {"rich"}, pixels : {VideoPixels}]

\* scale = (max_pixels / float(w * h)) ** 0.5; if scale < 1.0: cv.resize to
\* (int(w * scale), int(h * scale)): the most pixels the stored frame has
Resize(pixels, max_pixels) == IF max_pixels < pixels THEN max_pixels ELSE pixels

\* the frame k of a video as it is stored, and as the detector and the flow
\* see it: kp keypoints, total flow magnitude flow against the frame before
Image(v, path, k, max_pixels) ==
    [path |-> path, k |-> k, pixels |-> Resize(v.pixels, max_pixels),
     kp   |-> IF v.content = "rich" THEN pca_dim
              ELSE IF v.content = "sparse" THEN 1 ELSE 0,
     flow |-> IF v.content = "blank" THEN 0 ELSE 1]

(* --------------------------- mapping JSON ------------------------------ *)
Tok(t, v) == [t |-> t, v |-> v]

RECURSIVE NumToks(_)
NumToks(s) == IF s = <<>> THEN <<>> ELSE <<Tok("num", Head(s))>> \o NumToks(Tail(s))

\* json.dump({"orig_fps":..., "frame_step":..., "orig_indices":[...]}, f):
\* the text written, as a sequence of tokens
JsonDump(m) ==
    <<Tok("{", 0),
      Tok("key", 1), Tok("num", m.orig_fps),
      Tok("key", 2), Tok("num", m.frame_step),
      Tok("key", 3), Tok("[", 0)>>
    \o NumToks(m.orig_indices)
    \o <<Tok("]", 0), Tok("}", 0)>>

JSONDecodeError == [error |-> "JSONDecodeError"]

\* json.load(f) followed by data["orig_fps"], data["frame_step"],
\* data["orig_indices"]: the mapping, or JSONDecodeError for a text that is
\* not a complete document
JsonLoad(toks) ==
    LET n == Len(toks)
        wellFormed ==
            /\ n >= 9
            /\ toks[1] = Tok("{", 0)
            /\ toks[2] = Tok("key", 1) /\ toks[3].t = "num"
            /\ toks[4] = Tok("key", 2) /\ toks[5].t = "num"
            /\ toks[6] = Tok("key", 3) /\ toks[7] = Tok("[", 0)
            /\ \A i \in 8..(n - 2) : toks[i].t = "num"
            /\ toks[n - 1] = Tok("]", 0)
            /\ toks[n] = Tok("}", 0)
    IN  IF wellFormed
        THEN [orig_fps     |-> toks[3].v,
              frame_step   |-> toks[5].v,
              orig_indices |-> [i \in 1..(n - 9) |-> toks[i + 7].v]]
        ELSE JSONDecodeError

(* ------------------------------ arithmetic ----------------------------- *)
\* int(round(a / b)) for a >= 0, b > 0: Python rounds halves to even
RoundDiv(a, b) ==
    LET q == a \div b
        r == a % b
    IN  IF 2 * r < b THEN q
        ELSE IF 2 * r > b THEN q + 1
        ELSE IF q % 2 = 0 THEN q ELSE q + 1

Max(a, b) == IF a >= b THEN a ELSE b
Range(seq) == {seq[i] : i \in 1..Len(seq)}

\* orig_fps = cap.get(cv.CAP_PROP_FPS) or target_fps
OrigFps(reported, target_fps) == IF reported = 0 THEN target_fps ELSE reported

\* a slip: the step is not floored at 1
FrameStepNoFloor(orig_fps, target_fps) == RoundDiv(orig_fps, target_fps)

\* frame_step = max(int(round(orig_fps / target_fps)), 1)
FrameStep(orig_fps, target_fps) == Max(RoundDiv(orig_fps, target_fps), 1)

\* a slip: frames 1, 1 + step, ... are kept
KeepFrameOffByOne(count, frame_step) == count % frame_step = 1 % frame_step

\* if count % frame_step == 0
KeepFrame(count, frame_step) == count % frame_step = 0

(* ------------------------ load_frame_descriptors ----------------------- *)
NoFolder == [subfolder |-> "none", number |-> UnknownNumber]
\* pca_model: None, or the PCA fitted on the frames of folder src
NoModel == [fitted |-> FALSE, src |-> NoFolder, pool |-> 0]

Matrix(rows, width) == [rows |-> rows, width |-> width]
NoMatrix == Matrix(<<>>, 0)

RECURSIVE PoolRows(_)
\* rows of np.vstack(key_descs): the keypoint descriptors of all frames
PoolRows(frames) ==
    IF frames = <<>> THEN 0 ELSE Head(frames).kp + PoolRows(Tail(frames))

\* key_descs: the frames whose des is not None
KeyDescs(frames) == {i \in 1..Len(frames) : frames[i].kp > 0}

\* np.vstack(key_descs) needs one array or more
CanStack(arrays) == arrays # {}

\* PCA(n_components=pca_dim).fit(stacked) needs pca_dim samples or more
CanFit(frames) == PoolRows(frames) >= pca_dim

\* a slip: frames without keypoints are projected too
SiftVecNoGuard(frame, model) ==
    IF model.fitted
    THEN [kind |-> "proj", model |-> model]
    ELSE [kind |-> "zero", model |-> NoModel]

\* des is not None and pca_model is not None: project and average, else zeros
SiftVec(frame, model) ==
    IF frame.kp > 0 /\ model.fitted
    THEN [kind |-> "proj", model |-> model]
    ELSE [kind |-> "zero", model |-> NoModel]

\* compute_hof_for_frame, or zeros for the first frame; the histogram is
\* normalised when its sum is positive and left all zero otherwise
HofVec(frames, i) ==
    IF i > 1
    THEN IF frames[i].flow > 0 THEN "hist" ELSE "zero"
    ELSE "zero"

\* one row of the result: hstack, then division by the norm when norm > 1e-6
FrameVec(frames, i, model) ==
    LET sift_vec == SiftVec(frames[i], model)
        hof_vec  == HofVec(frames, i)
    IN  [sift |-> sift_vec, hof |-> hof_vec,
         unit |-> (sift_vec.kind = "proj" \/ hof_vec = "hist")]

DescOk(desc, model) == [error |-> "", desc |-> desc, model |-> model]
DescError(e) == [error |-> e, desc |-> NoMatrix, model |-> NoModel]

load_frame_descriptors(frame_folder, frames, pca_model, fit_pca) ==
    LET fitted == [fitted |-> TRUE, src |-> frame_folder, pool |-> PoolRows(frames)]
        model  == IF fit_pca THEN fitted ELSE pca_model
        all_descs == [i \in 1..Len(frames) |-> FrameVec(frames, i, model)]
    IN  IF fit_pca /\ ~CanStack(KeyDescs(frames)) THEN DescError("ValueError")
        ELSE IF fit_pca /\ ~CanFit(frames) THEN DescError("ValueError")
        ELSE IF ~CanStack(DOMAIN all_descs) THEN DescError("ValueError")
        ELSE DescOk(Matrix(all_descs, pca_dim + hof_bins), model)

(* ------------------------ compute_cte_correlation ---------------------- *)
RECURSIVE FloorLog2(_)
\* a slip: the logarithm is rounded down
FloorLog2(m) == IF m <= 1 THEN 0 ELSE 1 + FloorLog2(m \div 2)

RECURSIVE CeilLog2(_)
\* int(np.ceil(np.log2(m))) for m >= 1
CeilLog2(m) == IF m <= 1 THEN 0 ELSE 1 + CeilLog2((m + 1) \div 2)

\* N = 1 << int(np.ceil(np.log2(max(Tq, Tr))))
TransformLen(Tq, Tr) == 2 ^ CeilLog2(Max(Tq, Tr))

\* R[:Tr] = ref_desc: numpy assigns an array of width Dr to rows of width D
\* when the widths agree or Dr is 1 (broadcast), and raises ValueError else
CanAssign(Dr, D) == Dr = D \/ Dr = 1

\* length of np.fft.rfft(a, n=n, axis=0) and of np.fft.irfft(a, n=n)
RfftLen(n) == n \div 2 + 1
IrfftLen(m, n) == n

\* the error raised, or the length of the score sequence returned
compute_cte_correlation(query_desc, ref_desc) ==
    LET Tq == Len(query_desc.rows)
        D  == query_desc.width
        Tr == Len(ref_desc.rows)
        N  == TransformLen(Tq, Tr)
    IN  IF ~CanAssign(ref_desc.width, D)
        THEN [error |-> "ValueError", len |-> 0]
        ELSE [error |-> "", len |-> IrfftLen(RfftLen(N), N)]

(* The scores in exact arithmetic, for descriptors of whole numbers and    *)
(* transform lengths N of 1, 2 and 4, whose roots of unity are 1, i, -1    *)
(* and -i: a complex number is a pair <<re, im>> of integers.              *)
CAdd(a, b) == <<a[1] + b[1], a[2] + b[2]>>
CMul(a, b) == <<a[1] * b[1] - a[2] * b[2], a[1] * b[2] + a[2] * b[1]>>
\* np.conj
CConj(a) == <<a[1], -a[2]>>
\* i ^ e
Unit(e) == CASE e % 4 = 0 -> <<1, 0>>
             [] e % 4 = 1 -> <<0, 1>>
             [] e % 4 = 2 -> <<-1, 0>>
             [] e % 4 = 3 -> <<0, -1>>
\* exp(2 pi i e / N) for N in {1, 2, 4}
RootOfUnity(N, e) == Unit((4 \div N) * e)

RECURSIVE CSum(_, _)
\* F[1] + ... + F[n]
CSum(F, n) == IF n = 0 THEN <<0, 0>> ELSE CAdd(CSum(F, n - 1), F[n])

\* Q = np.zeros((N, D)); Q[:T] = desc: entry (t, d) of the padded matrix
\* (t from 1), a matrix of width 1 being broadcast over the D columns
Padded(desc, t, d) ==
    IF t <= Len(desc.rows)
    THEN desc.rows[t][IF desc.width = 1 THEN 1 ELSE d]
    ELSE 0

\* np.fft.rfft(Q, n=N, axis=0): rows f = 0..N/2, columns 1..D
Rfft(desc, N, D) ==
    [f \in 0..(N \div 2) |->
        [d \in 1..D |->
            CSum([t \in 1..N |->
                     CMul(<<Padded(desc, t, d), 0>>,
                          RootOfUnity(N, -(f * (t - 1))))], N)]]

\* a slip: the query's spectrum is not conjugated
CorrNumNoConj(Qf, Rf, f, D) ==
    CSum([d \in 1..D |-> CMul(Qf[f][d], Rf[f][d])], D)

\* num = np.sum(np.conj(Qf) * Rf, axis=1), at frequency f
CorrNum(Qf, Rf, f, D) ==
    CSum([d \in 1..D |-> CMul(CConj(Qf[f][d]), Rf[f][d])], D)

\* den = np.sum(np.abs(Qf)**2, axis=1), at frequency f
CorrDen(Qf, f, D) ==
    CSum([d \in 1..D |->
             <<Qf[f][d][1] * Qf[f][d][1] + Qf[f][d][2] * Qf[f][d][2], 0>>], D)[1]

RECURSIVE ProdExcept(_, _, _)
\* the product of W[0..n] without W[skip]
ProdExcept(W, n, skip) ==
    IF n < 0 THEN 1
    ELSE (IF n = skip THEN 1 ELSE W[n]) * ProdExcept(W, n - 1, skip)

RECURSIVE SumTo(_, _)
\* F[0] + ... + F[n]
SumTo(F, n) == IF n < 0 THEN 0 ELSE F[n] + SumTo(F, n - 1)

\* lambda_val as a fraction num / den; 1e-3 is the default and what the
\* alignment loop passes
DefaultLambda == [num |-> 1, den |-> 1000]

\* np.fft.irfft(num / (den + lambda_val), n=N), every score multiplied by
\* the same positive whole number N * W[0] * ... * W[N/2], where W[f] is
\* lambda.den * (den[f] + lambda): that makes the scores whole numbers and
\* leaves their order as it is. irfft takes the real parts of the spectrum's
\* entries 0 and N/2 once and twice the real part of the entries between,
\* each turned by exp(2 pi i f k / N).
CteScores(query_desc, ref_desc, lambda_val) ==
    LET D  == query_desc.width
        N  == TransformLen(Len(query_desc.rows), Len(ref_desc.rows))
        H  == N \div 2
        Qf == Rfft(query_desc, N, D)
        Rf == Rfft(ref_desc, N, D)
        W  == [f \in 0..H |-> CorrDen(Qf, f, D) * lambda_val.den + lambda_val.num]
        P  == [f \in 0..H |-> CorrNum(Qf, Rf, f, D)]
        term(f, k) ==
            (IF f = 0 \/ 2 * f = N THEN 1 ELSE 2)
                * CMul(P[f], RootOfUnity(N, f * k))[1]
                * lambda_val.den * ProdExcept(W, H, f)
    IN  [k \in 1..IrfftLen(RfftLen(N), N) |->
            SumTo([f \in 0..H |-> term(f, k - 1)], H)]

\* a score sequence of length n with a single peak at offset k - 1, or with
\* no peak at all (k = 0)
Peak(n, k) == [i \in 1..n |-> IF i = k THEN 1 ELSE 0]

\* the score sequences tried when the engine is run by itself: every offset
ScoreSeqs(n) == {Peak(n, k) : k \in 0..n}

\* the score sequences tried in the alignment loop: no peak, and a peak at
\* offset 0, 5, N/2, N/2 + 1 and N - 1
CellScoreSeqs(n) ==
    {Peak(n, k) : k \in {0, 1, 6, n \div 2 + 1, n \div 2 + 2, n} \cap 0..n}

\* int(np.argmax(scores)): the first offset (from 0) of the largest score
ArgMax(scores) ==
    LET top == CHOOSE v \in Range(scores) :
                   \A j \in 1..Len(scores) : v >= scores[j]
    IN  CHOOSE d \in 0..(Len(scores) - 1) :
            scores[d + 1] = top /\ \A j \in 1..d : scores[j] < top

\* a slip: the offset N/2 is wrapped too
WrapDeltaFromHalf(delta, N) == IF delta >= N \div 2 THEN delta - N ELSE delta

\* if delta > N//2: delta -= N
WrapDelta(delta, N) == IF delta > N \div 2 THEN delta - N ELSE delta

\* delta = max(delta, 0)
ClampDelta(delta) == Max(delta, 0)

\* a slip: the query's mapping is used
LookupMapOfQuery(l) == l.q_map

\* orig_frame = r_map[delta]; orig_time = orig_frame / r_fps
LookupMap(l) == l.r_map
LookupFps(l) == l.r_fps

(* ------------------------------- paths --------------------------------- *)
\* Two names of one output folder ("07_query", "7_query") for the sampler runs
SamplerPaths == {FileName(<<0, 7>>, "query"), FileName(<<7>>, "query")}
CellPaths == {q_file_of(i) : i \in 1..videos_idx_limit}
                 \cup {r_file_of(i) : i \in 1..videos_idx_limit}
\* the video the step computation is run on by itself ("3_reference")
StepPath == FileName(<<3>>, "reference")
TargetFpsSet == {DefaultTargetFps, CellTargetFps}
StepTargets == 1..MaxTarget \cup TargetFpsSet
AllPaths == SamplerPaths \cup CellPaths \cup {StepPath}
VideosAt(path) ==
    IF path \in CellPaths THEN CellVideos
    ELSE IF path = StepPath THEN StepVideos ELSE SamplerVideos
Folders  == {get_out_folder(p) : p \in AllPaths}

(* ------------------------------- state --------------------------------- *)
VARIABLES
    pc,           \* position of the running code
    ef,           \* the frame of the running extract_frames call
    disk_map,     \* folder -> text of frame_mapping.json (tokens) or NoFile
    disk_frames,  \* folder -> the frame_NNNN.jpg files, by saved index
    video,        \* path -> what cv.VideoCapture finds there
    ret,          \* outcome of the last extract_frames call
    returned,     \* history: path -> the mappings extract_frames returned
                  \* for that path (vals), and whether a call for it
                  \* returned after an earlier one had (again)
    idx,          \* the pair the alignment loop is at
    pca_model,    \* the loop's pca_model
    results,      \* the loop's results list
    loc,          \* the loop's other variables (q_map, r_map, scores, ...)
    x             \* a call of load_frame_descriptors made by itself

vars == <<pc, ef, disk_map, disk_frames, video, ret, returned,
          idx, pca_model, results, loc, x>>
cellVars == <<idx, pca_model, results, loc, x>>

NoFile == <<Tok("absent", 0)>>
NoMapping == [orig_fps |-> 0, frame_step |-> 0, orig_indices |-> <<>>]
NoRet == [status |-> "none", exc |-> "", val |-> NoMapping]
Returned(m) == [status |-> "returned", exc |-> "", val |-> m]
Raised(e)   == [status |-> "raised", exc |-> e, val |-> NoMapping]

\* the history of a path after one more call returned m
Record(h, m) == [vals |-> h.vals \cup {m}, again |-> h.vals # {}]

NoPath == FileName(<<>>, "none")
NullFrame ==
    [video_path |-> NoPath, output_folder |-> get_out_folder(NoPath),
     target_fps |-> 0, max_pixels |-> 0, orig_fps |-> 0, frame_step |-> 0,
     orig_indices |-> <<>>, count |-> 0, saved |-> 0,
     opens |-> 0, reads |-> 0, writes |-> 0, dumped |-> 0,
     ret_to |-> "", exc_to |-> ""]

EfPcs == {"ef_start", "ef_load", "ef_open", "ef_loop",
          "ef_dump_open", "ef_dump", "ef_return"}

\* a slip: the existing mapping is never found
AlwaysExtract(folder) == FALSE

\* os.path.isfile(mapping_path)
MappingExists(folder) == disk_map[folder] # NoFile

\* the mapping that extract_frames has built
BuiltMapping(f) ==
    [orig_fps |-> f.orig_fps, frame_step |-> f.frame_step,
     orig_indices |-> f.orig_indices]

\* cv.imwrite(frame_NNNN.jpg): creates or overwrites the file of index saved
WriteFrame(frames, saved, rec) ==
    IF saved + 1 <= Len(frames)
    THEN [frames EXCEPT ![saved + 1] = rec]
    ELSE Append(frames, rec)

(* ----------------------- match_query_to_reference ---------------------- *)
\* out_folder = get_out_folder(basename); extract_frames(video_file,
\* out_folder, target_fps, max_pixels) is entered
match_query_to_reference(video_file, target_fps, max_pixels, ret_to, exc_to) ==
    /\ ef' = [NullFrame EXCEPT !.video_path = video_file,
                               !.output_folder = get_out_folder(video_file),
                               !.target_fps = target_fps,
                               !.max_pixels = max_pixels,
                               !.ret_to = ret_to, !.exc_to = exc_to]
    /\ pc' = "ef_start"
    /\ ret' = NoRet

(* ---------------------------- extract_frames --------------------------- *)
\* os.makedirs(output_folder, exist_ok=True); if os.path.isfile(mapping_path)
EfStart ==
    /\ pc = "ef_start"
    /\ pc' = IF MappingExists(ef.output_folder) THEN "ef_load" ELSE "ef_open"
    /\ UNCHANGED <<ef, disk_map, disk_frames, video, ret, returned>>
    /\ UNCHANGED cellVars

\* a slip: the stored step is recomputed for the rate now asked for
EfLoadResampled ==
    /\ pc = "ef_load"
    /\ LET stored == JsonLoad(disk_map[ef.output_folder])
           data == IF stored = JSONDecodeError THEN stored
                   ELSE [stored EXCEPT !.frame_step =
                            FrameStep(stored.orig_fps, ef.target_fps)]
       IN  IF data = JSONDecodeError
           THEN /\ ret' = Raised("JSONDecodeError")
                /\ pc' = ef.exc_to
                /\ returned' = returned
           ELSE /\ ret' = Returned(data)
                /\ pc' = ef.ret_to
                /\ returned' = [returned EXCEPT ![ef.video_path] = Record(@, data)]
    /\ ef' = NullFrame
    /\ UNCHANGED <<disk_map, disk_frames, video>>
    /\ UNCHANGED cellVars

\* with open(mapping_path) as f: data = json.load(f); return data[...]
EfLoad ==
    /\ pc = "ef_load"
    /\ LET data == JsonLoad(disk_map[ef.output_folder])
       IN  IF data = JSONDecodeError
           THEN /\ ret' = Raised("JSONDecodeError")
                /\ pc' = ef.exc_to
                /\ returned' = returned
           ELSE /\ ret' = Returned(data)
                /\ pc' = ef.ret_to
                /\ returned' = [returned EXCEPT ![ef.video_path] = Record(@, data)]
    /\ ef' = NullFrame
    /\ UNCHANGED <<disk_map, disk_frames, video>>
    /\ UNCHANGED cellVars

\* cap = cv.VideoCapture(video_path); raise IOError unless cap.isOpened();
\* orig_fps, frame_step; orig_indices = []; count = 0; saved = 0
EfOpen ==
    /\ pc = "ef_open"
    /\ \E v \in VideosAt(ef.video_path) :
        /\ video[ef.video_path] \in {NotSeen, v}
        /\ video' = [video EXCEPT ![ef.video_path] = v]
        /\ IF ~v.isOpened
           THEN /\ ret' = Raised("IOError")
                /\ pc' = ef.exc_to
                /\ ef' = NullFrame
           ELSE /\ ef' = [ef EXCEPT
                        !.opens = 1,
                        !.orig_fps = OrigFps(v.fps, ef.target_fps),
                        !.frame_step =
                            FrameStep(OrigFps(v.fps, ef.target_fps), ef.target_fps)]
                /\ pc' = "ef_loop"
                /\ ret' = ret
    /\ UNCHANGED <<disk_map, disk_frames, returned>>
    /\ UNCHANGED cellVars

\* one turn of "while True": ret, frame = cap.read(); break at the end of
\* the video (then cap.release()), else keep or skip the frame
EfLoop ==
    /\ pc = "ef_loop"
    /\ IF ef.count >= video[ef.video_path].nframes
       THEN /\ pc' = "ef_dump_open"
            /\ ef' = [ef EXCEPT !.reads = 1]
            /\ disk_frames' = disk_frames
       ELSE /\ pc' = "ef_loop"
            /\ IF KeepFrame(ef.count, ef.frame_step)
               THEN /\ disk_frames' =
                         [disk_frames EXCEPT ![ef.output_folder] =
                             WriteFrame(@, ef.saved,
                                 Image(video[ef.video_path], ef.video_path, ef.count,
                                       ef.max_pixels))]
                    /\ ef' = [ef EXCEPT
                                !.orig_indices = Append(@, ef.count),
                                !.saved = @ + 1,
                                !.writes = @ + 1,
                                !.reads = 1,
                                !.count = @ + 1]
               ELSE /\ disk_frames' = disk_frames
                    /\ ef' = [ef EXCEPT !.reads = 1, !.count = @ + 1]
    /\ UNCHANGED <<disk_map, video, ret, returned>>
    /\ UNCHANGED cellVars

\* open(mapping_path, "w"): the file exists and is empty
EfDumpOpen ==
    /\ pc = "ef_dump_open"
    /\ disk_map' = [disk_map EXCEPT ![ef.output_folder] = <<>>]
    /\ pc' = "ef_dump"
    /\ UNCHANGED <<ef, disk_frames, video, ret, returned>>
    /\ UNCHANGED cellVars

\* json.dump(...) writes the text piece by piece; the with block closes the
\* file after the last piece
EfDump ==
    /\ pc = "ef_dump"
    /\ LET text == JsonDump(BuiltMapping(ef))
       IN  IF ef.dumped < Len(text)
           THEN /\ disk_map' = [disk_map EXCEPT ![ef.output_folder] =
                                    Append(@, text[ef.dumped + 1])]
                /\ ef' = [ef EXCEPT !.dumped = @ + 1]
                /\ pc' = "ef_dump"
           ELSE /\ pc' = "ef_return"
                /\ UNCHANGED <<disk_map, ef>>
    /\ UNCHANGED <<disk_frames, video, ret, returned>>
    /\ UNCHANGED cellVars

\* return orig_fps, frame_step, orig_indices
EfReturn ==
    /\ pc = "ef_return"
    /\ ret' = Returned(BuiltMapping(ef))
    /\ returned' = [returned EXCEPT ![ef.video_path] = Record(@, BuiltMapping(ef))]
    /\ pc' = ef.ret_to
    /\ ef' = NullFrame
    /\ UNCHANGED <<disk_map, disk_frames, video>>
    /\ UNCHANGED cellVars

\* KeyboardInterrupt (cell e80b361b's recorded output ends in one) or a kill
\* while extract_frames runs: the call is abandoned where it stands; what
\* was written to the mapping file so far stays on disk
EfInterrupt ==
    /\ pc \in EfPcs
    /\ ret' = Raised("KeyboardInterrupt")
    /\ pc' = ef.exc_to
    /\ ef' = NullFrame
    /\ UNCHANGED <<disk_map, disk_frames, video, returned>>
    /\ UNCHANGED cellVars

extract_frames ==
    \/ EfStart \/ EfLoad \/ EfOpen \/ EfLoop
    \/ EfDumpOpen \/ EfDump \/ EfReturn

(* ------------------- the sampler run on its own ------------------------ *)
InitDisk ==
    /\ disk_map = [f \in Folders |-> NoFile]
    /\ disk_frames = [f \in Folders |-> <<>>]
    /\ video = [p \in AllPaths |-> NotSeen]
    /\ returned = [p \in AllPaths |-> [vals |-> {}, again |-> FALSE]]

NoLoc ==
    [q_folder |-> NoFolder, q_fps |-> 0, q_step |-> 0, q_map |-> <<>>,
     q_desc |-> NoMatrix,
     r_folder |-> NoFolder, r_fps |-> 0, r_step |-> 0, r_map |-> <<>>,
     r_desc |-> NoMatrix,
     lambda_val |-> DefaultLambda, scores |-> <<>>, N |-> 0, delta |-> 0,
     raw |-> 0]   \* history: the value of int(np.argmax(scores))
NoCall == [frames |-> <<>>, pca_model |-> NoModel, fit_pca |-> FALSE,
           called |-> FALSE, result |-> DescError("")]

InitCell ==
    /\ idx = 0
    /\ pca_model = NoModel
    /\ results = <<>>
    /\ loc = NoLoc
    /\ x = NoCall

InitSampler ==
    /\ InitDisk
    /\ InitCell
    /\ pc = "idle"
    /\ ef = NullFrame
    /\ ret = NoRet

SamplerCall ==
    /\ pc = "idle"
    /\ \E p \in SamplerPaths, t \in TargetFpsSet :
           match_query_to_reference(p, t, DefaultMaxPixels, "idle", "idle")
    /\ UNCHANGED <<disk_map, disk_frames, video, returned>>
    /\ UNCHANGED cellVars

NextSampler == SamplerCall \/ extract_frames \/ EfInterrupt

SpecSampler == InitSampler /\ [][NextSampler]_vars

(* ------------- repeated calls for one output folder -------------------- *)
\* the videos behind the two names of the folder: one that cannot be opened,
\* and ones of MaxFrames frames that report no rate or 60 frames per second
RecallFps == {0, 60}
RecallVideos ==
    {v \in SamplerVideos :
        ~v.isOpened \/ (v.nframes = MaxFrames /\ v.fps \in RecallFps)}
MaxPixelsSet == {DefaultMaxPixels, CellMaxPixels}

\* the files behind the two names are what they are before the first call
InitRecall ==
    /\ disk_map = [f \in Folders |-> NoFile]
    /\ disk_frames = [f \in Folders |-> <<>>]
    /\ returned = [p \in AllPaths |-> [vals |-> {}, again |-> FALSE]]
    /\ \E vs \in [SamplerPaths -> RecallVideos] :
           video = [p \in AllPaths |->
                       IF p \in SamplerPaths THEN vs[p] ELSE NotSeen]
    /\ InitCell
    /\ pc = "idle"
    /\ ef = NullFrame
    /\ ret = NoRet

\* match_query_to_reference(video_file, None, target_fps, max_pixels)
RecallCall ==
    /\ pc = "idle"
    /\ \E p \in SamplerPaths, t \in TargetFpsSet, m \in MaxPixelsSet :
           match_query_to_reference(p, t, m, "idle", "idle")
    /\ UNCHANGED <<disk_map, disk_frames, video, returned>>
    /\ UNCHANGED cellVars

NextRecall == RecallCall \/ extract_frames \/ EfInterrupt

SpecRecall == InitRecall /\ [][NextRecall]_vars

(* ------------- the step computation of a fresh extraction -------------- *)
InitStep ==
    /\ InitDisk
    /\ InitCell
    /\ pc = "step_idle"
    /\ ef = NullFrame
    /\ ret = NoRet

\* extract_frames is entered for a video that has no mapping yet
StepCall ==
    /\ pc = "step_idle"
    /\ \E t \in StepTargets :
           match_query_to_reference(StepPath, t, DefaultMaxPixels,
                                    "step_idle", "step_idle")
    /\ UNCHANGED <<disk_map, disk_frames, video, returned>>
    /\ UNCHANGED cellVars

\* the call is followed up to the first turn of the decode loop
NextStep == StepCall \/ EfStart \/ EfOpen

SpecStep == InitStep /\ [][NextStep]_vars

(* ------------------- the alignment loop (cell e80b361b) ---------------- *)
\* the cell is run (again), in a fresh kernel: sift, pca_model = None,
\* results = [], and the for loop starts at pair 1
CellRun ==
    /\ pc \in {"fresh", "done", "aborted"}
    /\ pca_model' = NoModel
    /\ results' = <<>>
    /\ idx' = 1
    /\ loc' = NoLoc
    /\ ret' = NoRet
    /\ pc' = "cell_iter"
    /\ UNCHANGED <<ef, disk_map, disk_frames, video, returned, x>>

\* for idx in range(1, videos_idx_limit + 1): q_file, r_file, and the call
\* of match_query_to_reference(q_file, pca_model, target_fps=20, max_pixels=180000)
CellIter ==
    /\ pc = "cell_iter"
    /\ IF idx > videos_idx_limit
       THEN /\ pc' = "done"
            /\ UNCHANGED <<ef, ret>>
       ELSE match_query_to_reference(q_file_of(idx), CellTargetFps,
                                     CellMaxPixels, "q_desc", "aborted")
    /\ UNCHANGED <<disk_map, disk_frames, video, returned, cellVars>>

\* q_folder, pca_model, q_fps, q_step, q_map = <the call's result>;
\* q_desc, pca_model = load_frame_descriptors(q_folder, sift, pca_model,
\*                          pca_dim=64, fit_pca=(pca_model is None))
CellQueryDesc ==
    /\ pc = "q_desc"
    /\ LET q_folder == get_out_folder(q_file_of(idx))
           d == load_frame_descriptors(q_folder, disk_frames[q_folder],
                                       pca_model, ~pca_model.fitted)
           got == [loc EXCEPT !.q_folder = q_folder,
                              !.q_fps = ret.val.orig_fps,
                              !.q_step = ret.val.frame_step,
                              !.q_map = ret.val.orig_indices]
       IN  IF d.error # ""
           THEN /\ pc' = "aborted"
                /\ ret' = Raised(d.error)
                /\ loc' = got
                /\ pca_model' = pca_model
           ELSE /\ pc' = "r_call"
                /\ ret' = ret
                /\ loc' = [got EXCEPT !.q_desc = d.desc]
                /\ pca_model' = d.model
    /\ UNCHANGED <<ef, disk_map, disk_frames, video, returned, idx, results, x>>

\* match_query_to_reference(r_file, pca_model, target_fps=20, max_pixels=180000) is called
CellRefCall ==
    /\ pc = "r_call"
    /\ match_query_to_reference(r_file_of(idx), CellTargetFps, CellMaxPixels,
                                "r_desc", "aborted")
    /\ UNCHANGED <<disk_map, disk_frames, video, returned, cellVars>>

\* r_folder, _, r_fps, r_step, r_map = <the call's result>;
\* r_desc, _ = load_frame_descriptors(r_folder, sift, pca_model,
\*                                    pca_dim=64, fit_pca=True)
CellRefDesc ==
    /\ pc = "r_desc"
    /\ LET r_folder == get_out_folder(r_file_of(idx))
           d == load_frame_descriptors(r_folder, disk_frames[r_folder],
                                       pca_model, TRUE)
           got == [loc EXCEPT !.r_folder = r_folder,
                              !.r_fps = ret.val.orig_fps,
                              !.r_step = ret.val.frame_step,
                              !.r_map = ret.val.orig_indices]
       IN  IF d.error # ""
           THEN /\ pc' = "aborted"
                /\ ret' = Raised(d.error)
                /\ loc' = got
           ELSE /\ pc' = "corr"
                /\ ret' = ret
                /\ loc' = [got EXCEPT !.r_desc = d.desc]
    /\ UNCHANGED <<ef, disk_map, disk_frames, video, returned,
                   idx, pca_model, results, x>>

\* scores = compute_cte_correlation(q_desc, r_desc, lambda_val=1e-3)
CellCorrelate ==
    /\ pc = "corr"
    /\ LET c == compute_cte_correlation(loc.q_desc, loc.r_desc)
       IN  IF c.error # ""
           THEN /\ pc' = "aborted"
                /\ ret' = Raised(c.error)
                /\ loc' = loc
           ELSE /\ pc' = "peak"
                /\ ret' = ret
                /\ \E sc \in CellScoreSeqs(c.len) :
                       loc' = [loc EXCEPT !.scores = sc]
    /\ UNCHANGED <<ef, disk_map, disk_frames, video, returned,
                   idx, pca_model, results, x>>

\* N = scores.shape[0]; delta = int(np.argmax(scores));
\* if delta > N//2: delta -= N
CellPeak ==
    /\ pc = "peak"
    /\ loc' = [loc EXCEPT !.N = Len(loc.scores),
                          !.raw = ArgMax(loc.scores),
                          !.delta = WrapDelta(ArgMax(loc.scores), Len(loc.scores))]
    /\ pc' = "clamp"
    /\ UNCHANGED <<ef, disk_map, disk_frames, video, ret, returned,
                   idx, pca_model, results, x>>

\* delta = max(delta, 0)
CellClamp ==
    /\ pc = "clamp"
    /\ loc' = [loc EXCEPT !.delta = ClampDelta(loc.delta)]
    /\ pc' = "lookup"
    /\ UNCHANGED <<ef, disk_map, disk_frames, video, ret, returned,
                   idx, pca_model, results, x>>

\* orig_frame = r_map[delta] (IndexError past the end of the list);
\* orig_time = orig_frame / r_fps; results.append((idx, orig_frame,
\* orig_time)); the loop goes to the next pair
CellLookup ==
    /\ pc = "lookup"
    /\ IF loc.delta >= Len(LookupMap(loc))
       THEN /\ pc' = "aborted"
            /\ ret' = Raised("IndexError")
            /\ UNCHANGED <<idx, results>>
       ELSE LET orig_frame == LookupMap(loc)[loc.delta + 1]
                orig_time  == [num |-> orig_frame, den |-> LookupFps(loc)]
            IN  /\ results' = Append(results,
                        [idx |-> idx, orig_frame |-> orig_frame,
                         orig_time |-> orig_time])
                /\ idx' = idx + 1
                /\ pc' = "cell_iter"
                /\ ret' = ret
    /\ UNCHANGED <<ef, disk_map, disk_frames, video, returned, pca_model, loc, x>>

Cell ==
    \/ CellRun \/ CellIter \/ CellQueryDesc \/ CellRefCall \/ CellRefDesc
    \/ CellCorrelate \/ CellPeak \/ CellClamp \/ CellLookup

Init ==
    /\ InitDisk
    /\ InitCell
    /\ pc = "fresh"
    /\ ef = NullFrame
    /\ ret = NoRet

Next == Cell \/ extract_frames

Spec == Init /\ [][Next]_vars

(* ------------- the correlation engine and peak selection alone -------- *)
ZeroRow == [sift |-> [kind |-> "zero", model |-> NoModel], hof |-> "zero",
            unit |-> FALSE]
ZeroMatrix(T, D) == Matrix([i \in 1..T |-> ZeroRow], D)
\* the shapes tried: all small ones, and the recorded 60 x 72 and 600 x 72
CorrWidths == {1, 2, 3}
CorrShapes ==
    [Tq : 1..MaxT, Tr : 1..MaxT, Dq : CorrWidths, Dr : CorrWidths]
    \cup [Tq : {QueryFrames}, Tr : {RefFrames},
          Dq : {pca_dim + hof_bins}, Dr : {pca_dim + hof_bins}]

InitCorr ==
    /\ InitDisk
    /\ idx = 0 /\ pca_model = NoModel /\ results = <<>> /\ x = NoCall
    /\ pc = "corr_call"
    /\ ef = NullFrame
    /\ ret = NoRet
    /\ \E sh \in CorrShapes :
           loc = [NoLoc EXCEPT !.q_desc = ZeroMatrix(sh.Tq, sh.Dq),
                               !.r_desc = ZeroMatrix(sh.Tr, sh.Dr)]

\* scores = compute_cte_correlation(q_desc, r_desc)
CorrCall ==
    /\ pc = "corr_call"
    /\ LET c == compute_cte_correlation(loc.q_desc, loc.r_desc)
       IN  IF c.error # ""
           THEN /\ pc' = "raised"
                /\ ret' = Raised(c.error)
                /\ loc' = loc
           ELSE /\ pc' = "peak"
                /\ ret' = ret
                /\ \E sc \in ScoreSeqs(c.len) : loc' = [loc EXCEPT !.scores = sc]
    /\ UNCHANGED <<ef, disk_map, disk_frames, video, returned,
                   idx, pca_model, results, x>>

NextCorr == CorrCall \/ CellPeak \/ CellClamp

SpecCorr == InitCorr /\ [][NextCorr]_vars

(* ----------- the correlation engine on descriptors of numbers ---------- *)
\* descriptor matrices of 1..MaxCteT rows: of width 1 with entries -1, 0, 1
\* and of width 2 with entries 0, 1
NumRows(D) == [1..D -> IF D = 1 THEN {-1, 0, 1} ELSE {0, 1}]
NumMatrices(D) ==
    {Matrix(rows, D) :
        rows \in UNION {[1..T -> NumRows(D)] : T \in 1..MaxCteT}}
\* the references that are not the query: of width 1, one or two rows
OtherRefs == {m \in NumMatrices(1) : Len(m.rows) <= 2}
\* lambda_val: 1/4 and 3 (the products of the exact computation stay small)
Lambdas == {[num |-> 1, den |-> 4], [num |-> 3, den |-> 1]}

\* the query is any matrix, the reference is the query or one of OtherRefs
InitCte ==
    /\ InitDisk
    /\ idx = 0 /\ pca_model = NoModel /\ results = <<>> /\ x = NoCall
    /\ pc = "cte_call"
    /\ ef = NullFrame
    /\ ret = NoRet
    /\ \E q \in NumMatrices(1) \cup NumMatrices(2), l \in Lambdas :
           \E r \in {q} \cup OtherRefs :
               loc = [NoLoc EXCEPT !.q_desc = q, !.r_desc = r, !.lambda_val = l]

\* scores = compute_cte_correlation(q_desc, r_desc, lambda_val)
CteCall ==
    /\ pc = "cte_call"
    /\ LET c == compute_cte_correlation(loc.q_desc, loc.r_desc)
       IN  IF c.error # ""
           THEN /\ pc' = "raised"
                /\ ret' = Raised(c.error)
                /\ loc' = loc
           ELSE /\ pc' = "peak"
                /\ ret' = ret
                /\ loc' = [loc EXCEPT !.scores =
                              CteScores(loc.q_desc, loc.r_desc, loc.lambda_val)]
    /\ UNCHANGED <<ef, disk_map, disk_frames, video, returned,
                   idx, pca_model, results, x>>

NextCte == CteCall \/ CellPeak

SpecCte == InitCte /\ [][NextCte]_vars

(* ------------------- the descriptor extractor alone -------------------- *)
Images == [path : {NoPath}, k : {0}, pixels : {DefaultMaxPixels},
           kp : {0, 1, pca_dim}, flow : {0, 1}]
FrameSeqs == UNION {[1..n -> Images] : n \in 0..MaxSeq}
XFolder == get_out_folder(q_file_of(1))
XModel == [fitted |-> TRUE, src |-> get_out_folder(r_file_of(1)), pool |-> pca_dim]

InitExtractor ==
    /\ InitDisk
    /\ idx = 0 /\ pca_model = NoModel /\ results = <<>> /\ loc = NoLoc
    /\ pc = "x_call"
    /\ ef = NullFrame
    /\ ret = NoRet
    /\ \E fs \in FrameSeqs, m \in {NoModel, XModel}, fit \in BOOLEAN :
           x = [NoCall EXCEPT !.frames = fs, !.pca_model = m, !.fit_pca = fit]

\* load_frame_descriptors(frame_folder, sift, pca_model, fit_pca=...)
ExtractorCall ==
    /\ pc = "x_call"
    /\ x' = [x EXCEPT !.called = TRUE,
                      !.result = load_frame_descriptors(XFolder, x.frames,
                                                        x.pca_model, x.fit_pca)]
    /\ pc' = "x_done"
    /\ UNCHANGED <<ef, disk_map, disk_frames, video, ret, returned,
                   idx, pca_model, results, loc>>

NextExtractor == ExtractorCall

SpecExtractor == InitExtractor /\ [][NextExtractor]_vars

(* ------------------------- claims on the sampler ----------------------- *)
LoopPcs == {"ef_loop", "ef_dump_open", "ef_dump", "ef_return"}

\* C1: once a call of extract_frames for a video has returned, every later
\* call for that video returns the same (orig_fps, frame_step, orig_indices)
\* and opens no video, reads no frame and writes no frame.
C1_Idempotent ==
    /\ \A p \in AllPaths : Cardinality(returned[p].vals) <= 1
    /\ (pc \in EfPcs /\ returned[ef.video_path].vals # {})
           => (ef.opens = 0 /\ ef.reads = 0 /\ ef.writes = 0)

\* a second call for the only video used so far has returned a mapping of
\* two or more frames
C1_Witness ==
    \E p \in SamplerPaths :
        /\ returned[p].again
        /\ \A o \in SamplerPaths \ {p} : video[o] = NotSeen
        /\ pc = "idle" /\ ret.status = "returned"
        /\ Len(ret.val.orig_indices) >= 2

\* C2: in a fresh extraction, at every turn of the decode loop and after it,
\* frame k (k < count) was kept iff k mod frame_step = 0, the number of
\* entries of orig_indices is the number of frames saved, orig_indices is
\* strictly increasing and orig_indices[i] = i * frame_step (i from 0).
C2_KeepRule ==
    pc \in LoopPcs =>
        /\ ef.frame_step >= 1
        /\ Len(ef.orig_indices) = ef.saved
        /\ ef.writes = ef.saved
        /\ Len(disk_frames[ef.output_folder]) >= ef.saved
        /\ \A i \in 1..ef.saved :
               /\ ef.orig_indices[i] = (i - 1) * ef.frame_step
               /\ disk_frames[ef.output_folder][i].path = ef.video_path
               /\ disk_frames[ef.output_folder][i].k = ef.orig_indices[i]
        /\ \A i \in 1..(ef.saved - 1) : ef.orig_indices[i] < ef.orig_indices[i + 1]
        /\ \A k \in 0..(ef.count - 1) :
               (k \in Range(ef.orig_indices)) <=> (k % ef.frame_step = 0)

\* five frames read at step 3: frames 0 and 3 were kept, 1, 2 and 4 skipped
C2_Witness ==
    /\ pc \in LoopPcs
    /\ ef.frame_step = 3 /\ ef.count = 5
    /\ ef.orig_indices = <<0, 3>>

\* C3 (as claimed): whenever no call is running, also after an interrupted
\* one, every mapping file that exists holds a complete mapping.
C3_AtomicMapping ==
    pc = "idle" =>
        \A f \in Folders :
            MappingExists(f) => JsonLoad(disk_map[f]) # JSONDecodeError

\* C12: in a fresh extraction, for every reported frame rate and every
\* target rate > 0, frame_step is an integer >= 1 and is the integer nearest
\* to orig_fps / target_fps (the even one of two equally near), or 1 when
\* that integer is below 1; a reported rate of 0 is replaced by the target
\* rate and gives step 1.
C12_SamplingStep ==
    pc = "ef_loop" =>
        LET reported == video[ef.video_path].fps
            t == ef.target_fps
            o == ef.orig_fps
            s == ef.frame_step
        IN  /\ t > 0
            /\ o = (IF reported = 0 THEN t ELSE reported)
            /\ s \in Nat /\ s >= 1
            /\ reported = 0 => s = 1
            /\ \E n \in 0..(o + 1) :
                   \* |o / t - n| <= 1/2, and n is even when it is 1/2
                   /\ 2 * o - 2 * n * t <= t
                   /\ 2 * n * t - 2 * o <= t
                   /\ (2 * o - 2 * n * t \in {t, -t}) => n % 2 = 0
                   /\ s = (IF n < 1 THEN 1 ELSE n)

\* a video of 7 frames per second sampled at 15: 7/15 rounds to 0, step 1
C12_Witness ==
    /\ pc = "ef_loop"
    /\ video[ef.video_path].fps = 7 /\ ef.target_fps = DefaultTargetFps
    /\ ef.orig_fps = 7 /\ ef.frame_step = 1

FolderPaths(f) == {p \in AllPaths : get_out_folder(p) = f}
FolderVals(f) == UNION {returned[p].vals : p \in FolderPaths(f)}

\* C14: once a call of extract_frames has returned a mapping for an output
\* folder, no step of a later call for that folder (another target_fps,
\* another max_pixels, another video path of the same folder, a video that
\* cannot be opened) changes a frame file, every such call that returns
\* returns that same mapping, and none raises an error of its own (an
\* interrupt from outside apart).
C14_FirstCompletedWins ==
    [][LET f == ef.output_folder
           vals == FolderVals(f)
       IN  (pc \in EfPcs /\ vals # {}) =>
              /\ disk_frames' = disk_frames
              /\ Cardinality(vals) = 1
              /\ \A p \in FolderPaths(f) : returned'[p].vals \subseteq vals
              /\ ret'.status = "raised" => ret'.exc = "KeyboardInterrupt"]_vars

\* the folder was filled from "07_query" (60 frames per second, target 15,
\* max_pixels 120000: step 4); a call for "7_query", a file that cannot be
\* opened, has returned that mapping, and a call for "07_query" has returned
\* it again; the frames on disk are the ones first written
C14_Witness ==
    LET first == FileName(<<0, 7>>, "query")
        other == FileName(<<7>>, "query")
        f == get_out_folder(first)
    IN  /\ pc = "idle" /\ ret.status = "returned"
        /\ video[other] = Unopenable
        /\ video[first].fps = 60 /\ video[first].nframes = MaxFrames
        /\ returned[first].again
        /\ returned[other].vals = returned[first].vals
        /\ ret.val.frame_step = 4 /\ Len(ret.val.orig_indices) = 2
        /\ Len(disk_frames[f]) = 2
        /\ \A i \in 1..2 : /\ disk_frames[f][i].path = first
                            /\ disk_frames[f][i].pixels = DefaultMaxPixels

(* -------------------- claims on the alignment loop --------------------- *)
IsFirstMax(scores, d) ==
    /\ d \in 0..(Len(scores) - 1)
    /\ \A j \in 1..Len(scores) : scores[d + 1] >= scores[j]
    /\ \A j \in 1..d : scores[j] < scores[d + 1]

\* C4: with raw the first offset of the largest of the N scores, the offset
\* after wrap-around correction is raw - N exactly when raw > N/2 and raw
\* otherwise; after clamping it is raw when raw <= N/2 and 0 otherwise, and
\* lies in 0..N/2.
C4_PeakSelection ==
    /\ pc = "clamp" =>
        /\ loc.N = Len(loc.scores)
        /\ IsFirstMax(loc.scores, loc.raw)
        /\ loc.delta = IF 2 * loc.raw > loc.N THEN loc.raw - loc.N ELSE loc.raw
    /\ pc = "lookup" =>
        /\ loc.N = Len(loc.scores)
        /\ IsFirstMax(loc.scores, loc.raw)
        /\ loc.delta = IF 2 * loc.raw <= loc.N THEN loc.raw ELSE 0
        /\ loc.delta >= 0 /\ 2 * loc.delta <= loc.N

\* a raw argmax of N - 1 with N = 1024 has become -1 and is not clamped yet
C4_Witness ==
    /\ pc = "clamp"
    /\ loc.N = 1024 /\ loc.raw = 1023 /\ loc.delta = -1

\* C5: the frame reported for a pair is entry clamped_offset of the
\* orig_indices stored for the pair's reference video, and the time reported
\* is that frame divided by the orig_fps stored for the reference video.
C5_OffsetMapping ==
    (pc \in {"cell_iter", "done"} /\ results # <<>>) =>
        LET last == results[Len(results)]
            m == JsonLoad(disk_map[get_out_folder(r_file_of(last.idx))])
        IN  /\ m # JSONDecodeError
            /\ loc.delta \in 0..(Len(m.orig_indices) - 1)
            /\ last.orig_frame = m.orig_indices[loc.delta + 1]
            /\ m.orig_fps > 0
            /\ last.orig_time = [num |-> last.orig_frame, den |-> m.orig_fps]

\* orig_indices = [0, 3, 6, ...] of the reference, a query sampled at step 1,
\* and a clamped offset of 5: frame 15 is reported
C5_Witness ==
    /\ pc = "cell_iter" /\ results # <<>>
    /\ loc.r_map = <<0, 3, 6, 9, 12, 15>>
    /\ loc.q_step = 1 /\ Len(loc.q_map) > 6
    /\ loc.delta = 5
    /\ results[Len(results)].orig_frame = 15

\* C13 (as claimed): when the reference's orig_indices is about to be
\* indexed, the clamped offset is a valid index into it, whatever the
\* numbers of query and reference frames and wherever the largest score is.
C13_OffsetInRange ==
    pc = "lookup" =>
        (loc.delta >= 0 /\ loc.delta < Len(loc.r_map))

HasResult(i) == \E k \in 1..Len(results) : results[k].idx = i

\* C6 (as claimed): when the run of a batch has ended, every pair has its
\* result in the report or is the pair whose own failure was reported.
C6_FailureIsolation ==
    pc \in {"done", "aborted"} =>
        \A i \in 1..videos_idx_limit :
            HasResult(i) \/ (i = idx /\ ret.status = "raised")

ModelsUsed(desc) ==
    {desc.rows[i].sift.model :
        i \in {j \in 1..Len(desc.rows) : desc.rows[j].sift.kind = "proj"}}

\* C7 (as claimed): the descriptors of the query and of the reference of a
\* pair that are correlated were all projected through the loop's one
\* frozen model.
C7_SameProjection ==
    pc = "corr" =>
        ModelsUsed(loc.q_desc) \cup ModelsUsed(loc.r_desc) \subseteq {pca_model}

(* ---------------- claims on the descriptor extractor ------------------- *)
\* C8 (as claimed): load_frame_descriptors never raises, whatever the frames
\* of a sequence of one frame or more yield, with or without fitting.
C8_NeverRaises == (x.called /\ x.frames # <<>>) => x.result.error = ""

\* C8 (amended): for a frame sequence that is not empty, without fitting, or
\* with fitting when the frames yield pca_dim keypoint descriptors or more
\* together, the call completes with one row per frame, a zero appearance
\* part for every frame without keypoints and a zero motion part for the
\* first frame and for every frame of zero flow magnitude; for an empty
\* sequence, and with fitting on fewer than pca_dim descriptors, it raises.
C8_DegenerateFallback ==
    x.called =>
        IF x.frames # <<>> /\ (x.fit_pca => PoolRows(x.frames) >= pca_dim)
        THEN /\ x.result.error = ""
             /\ Len(x.result.desc.rows) = Len(x.frames)
             /\ \A i \in 1..Len(x.frames) :
                    LET row == x.result.desc.rows[i]
                    IN  /\ x.frames[i].kp = 0 => row.sift.kind = "zero"
                        /\ (i = 1 \/ x.frames[i].flow = 0) => row.hof = "zero"
                        /\ (row.sift.kind = "zero" /\ row.hof = "zero")
                               => ~row.unit
        ELSE x.result.error = "ValueError"

\* a fit on three frames, the second without keypoints and without motion
C8_Witness ==
    /\ x.called /\ x.fit_pca /\ x.result.error = ""
    /\ Len(x.frames) = 3
    /\ x.frames[1].kp = pca_dim
    /\ x.frames[2].kp = 0 /\ x.frames[2].flow = 0
    /\ x.result.desc.rows[2] = ZeroRow

(* ----------------- claims on the correlation engine -------------------- *)
\* C9 (as claimed): when the widths of the two matrices differ, the call
\* raises and returns no scores.
C9_DimensionMismatch ==
    (pc # "corr_call" /\ loc.q_desc.width # loc.r_desc.width) =>
        (pc = "raised" /\ ret.status = "raised" /\ loc.scores = <<>>)

\* C11: for a query and a reference that are the same matrix (so Tq = Tr),
\* and lambda > 0, no score is larger than the score at offset 0, and the
\* argmax of the scores is 0.
C11_SelfCorrelation ==
    (pc = "clamp" /\ loc.q_desc = loc.r_desc) =>
        /\ loc.lambda_val.num > 0 /\ loc.lambda_val.den > 0
        /\ \A k \in 1..Len(loc.scores) : loc.scores[1] >= loc.scores[k]
        /\ loc.raw = 0

\* three frames <<1>>, <<-1>>, <<0>> against themselves, padded to N = 4:
\* the score at offset 0 is the largest, the others are smaller
C11_Witness ==
    /\ pc = "clamp" /\ loc.q_desc = loc.r_desc
    /\ loc.q_desc.rows = <<<<1>>, <<-1>>, <<0>>>>
    /\ Len(loc.scores) = 4 /\ loc.raw = 0
    /\ \A k \in 2..4 : loc.scores[k] < loc.scores[1]

RECURSIVE IsPow2(_)
IsPow2(n) == n = 1 \/ (n > 1 /\ n % 2 = 0 /\ IsPow2(n \div 2))

\* C10: the score sequence returned for Tq and Tr frames has a length N
\* that is a power of two, at least max(Tq, Tr), and the smallest such.
C10_TransformLength ==
    pc \in {"peak", "clamp", "lookup"} =>
        LET N == Len(loc.scores)
            T == Max(Len(loc.q_desc.rows), Len(loc.r_desc.rows))
        IN  /\ IsPow2(N)
            /\ N >= T
            /\ N > 1 => N \div 2 < T

\* 60 query frames and 600 reference frames: 1024 scores
C10_Witness ==
    /\ pc = "peak"
    /\ Len(loc.q_desc.rows) = QueryFrames /\ Len(loc.r_desc.rows) = RefFrames
    /\ Len(loc.scores) = 1024

====
